---- MODULE Spec2Model ----
(***************************************************************************)
(* A model of continued.py: continued-fraction digit sources (Rational,    *)
(* Surd, E, Pi through the generalized simplifier), the bihomographic      *)
(* combiner, the comparator, the convergent recurrence and normalize.      *)
(* Generators are modelled at the granularity of their loops: a variable   *)
(* holds the locals of the one generator that is running, and pc its       *)
(* position.                                                               *)
(***************************************************************************)
EXTENDS Integers, Sequences, FiniteSets, TLC

\* ---------------------------------------------------------------- bounds
MaxNum == 4        \* numerators / denominators of the rational operands
MaxIter == 40      \* combiner loop iterations explored
MaxDigits == 9     \* digits requested from an infinite source
MaxRadicand == 14  \* radicands of the surds explored
MaxPairs == 6      \* generalized pairs fed to the simplifier
MaxLen == 4        \* length of the digit lists given to normalize
MaxCalls == 2      \* successive calls of normalize on one instance

\* ------------------------------------------------------------- variables
VARIABLES
    kind,        \* class of the object under use
    pc,          \* position of the running operation / generator
    n1, d1,      \* self.n, self.d of the first Rational
    n2, d2,      \* self.n, self.d of the second Rational
    finite,      \* the instance's finite flag
    ret,         \* value returned by a one-shot operation
    out,         \* digits yielded so far by the running generator
    initial,     \* combiner: the 8-coefficient seed
    coef,        \* combiner: (a, b, c, d, e, f, g, h)
    old,         \* combiner: old, as assigned at the top of the loop body
    use_x,       \* combiner
    x_is_empty,  \* combiner
    y_is_empty,  \* combiner
    ix, iy,      \* combiner: digits consumed from iterx / itery
    iter,        \* loop iterations / next() calls performed so far
    self_i,      \* Surd: self.i
    l,           \* Surd: l, the list of (m, d, a) triples seen
    mda,         \* Surd: the locals (m, d, a)
    cyc,         \* Surd: position of the cycle iterator in repeating
    emod,        \* E: the locals (i, mod)
    abcd,        \* simplifier: (a, b, c, d)
    feed,        \* simplifier: which generator f is being simplified
    digitlist    \* Continued.digitlist

vars == <<kind, pc, n1, d1, n2, d2, finite, ret, out, initial, coef, old,
          use_x, x_is_empty, y_is_empty, ix, iy, iter, self_i, l, mda, cyc,
          emod, abcd, feed, digitlist>>

ratVars == <<n1, d1, n2, d2>>
combVars == <<initial, coef, old, use_x, x_is_empty, y_is_empty, ix, iy>>
surdVars == <<self_i, l, mda, cyc>>

\* ------------------------------------------------------------ arithmetic
\* Python's // on integers: floor division, also for a negative divisor.
FloorDiv(x, y) == IF y > 0 THEN x \div y ELSE (0 - x) \div (0 - y)

\* Python's % for a positive divisor.
PyMod(x, y) == x % y

RECURSIVE gcd(_, _)
gcd(x, y) ==
    IF x = 0 THEN y
    ELSE IF y = 0 THEN x
    ELSE IF x = y THEN x
    ELSE IF x > y THEN gcd(PyMod(x, y), y)
    ELSE gcd(x, PyMod(y, x))

\* int(math.sqrt(i)) for a non-negative integer i
RECURSIVE IsqrtFrom(_, _)
IsqrtFrom(i, r) == IF (r + 1) * (r + 1) > i THEN r ELSE IsqrtFrom(i, r + 1)

Isqrt(i) == IsqrtFrom(i, 0)

\* ------------------------------------------------------- Rational.digits
\* RationalLoop, ending an exact division with the digits (digit - 1, 1)
RECURSIVE RationalLoop_TrailingOne(_, _, _)
RationalLoop_TrailingOne(n, d, acc) ==
    LET digit == FloorDiv(n, d)
        rem == PyMod(n, d)
    IN  IF rem = d THEN Append(acc, digit + 1)
        ELSE IF digit = 0 THEN acc
        ELSE IF rem = 0 THEN acc \o <<digit - 1, 1>>
        ELSE RationalLoop_TrailingOne(d, rem, Append(acc, digit))

RECURSIVE RationalLoop(_, _, _)
RationalLoop(n, d, acc) ==
    LET digit == FloorDiv(n, d)
        rem == PyMod(n, d)
    IN  IF rem = d THEN Append(acc, digit + 1)
        ELSE IF digit = 0 THEN acc
        ELSE IF rem = 0 THEN Append(acc, digit)
        ELSE RationalLoop(d, rem, Append(acc, digit))

RationalDigits(n, d) ==
    IF n = 0 THEN <<0>>
    ELSE IF d = 0 THEN <<0>>
    ELSE IF d > n THEN RationalLoop(d, n, <<0>>)
    ELSE RationalLoop(n, d, <<>>)

\* ------------------------------------------------ Continued.approximations
RECURSIVE ApproxLoop(_, _, _, _, _, _, _)
ApproxLoop(ds, k, oldp, oldoldp, oldq, oldoldq, acc) ==
    IF k > Len(ds) THEN acc
    ELSE LET digit == ds[k]
             p == digit * oldp + oldoldp
             q == digit * oldq + oldoldq
         IN  ApproxLoop(ds, k + 1, p, oldp, q, oldq, Append(acc, <<p, q>>))

\* SecondApprox without the "+ 1"
SecondApprox_NoPlusOne(digit, oldoldp) == <<digit * oldoldp, digit>>

SecondApprox(digit, oldoldp) == <<digit * oldoldp + 1, digit>>

Approximations(ds) ==
    IF Len(ds) = 0 THEN <<>>
    ELSE IF Len(ds) = 1 THEN << <<ds[1], 1>> >>
    ELSE LET second == SecondApprox(ds[2], ds[1])
         IN  ApproxLoop(ds, 3, second[1], ds[1], second[2], 1,
                        << <<ds[1], 1>>, second >>)

\* ------------------------------------------------------- Continued.__cmp__
\* izip_longest(..., fillvalue=0): the shorter side reads as 0
Filled(ds, k) == IF k <= Len(ds) THEN ds[k] ELSE 0

RECURSIVE CmpLoop(_, _, _, _)
CmpLoop(xs, ys, k, toggle) ==
    IF k > Len(xs) /\ k > Len(ys) THEN 0
    ELSE LET x == Filled(xs, k)
             y == Filled(ys, k)
         IN  IF x # y
             THEN IF toggle THEN (IF x > y THEN -1 ELSE 1)
                            ELSE (IF x < y THEN -1 ELSE 1)
             ELSE CmpLoop(xs, ys, k + 1, ~toggle)

Cmp(xs, xfinite, ys, yfinite) ==
    IF ~xfinite /\ ~yfinite THEN "NotImplemented"
    ELSE CmpLoop(xs, ys, 1, FALSE)

\* ------------------------------------------------------ Continued.combiner
add_seed == <<0, 1, 1, 0, 1, 0, 0, 0>>
sub_seed == <<0, 1, -1, 0, 1, 0, 0, 0>>
mul_seed == <<0, 0, 0, 1, 1, 0, 0, 0>>
div_seed == <<0, 1, 0, 0, 0, 0, 1, 0>>

Seeds == {add_seed, sub_seed, mul_seed, div_seed}

\* "x // y if y else None": None is the empty tuple, a quotient <<q>>
Quot(x, y) == IF y # 0 THEN <<FloorDiv(x, y)>> ELSE <<>>

\* any((e, f, g, h))
AnyEFGH(s) == s[5] # 0 \/ s[6] # 0 \/ s[7] # 0 \/ s[8] # 0

\* ae == bf and bf == cg and cg == dh
CanOutput(s) ==
    LET ae == Quot(s[1], s[5])
        bf == Quot(s[2], s[6])
        cg == Quot(s[3], s[7])
        dh == Quot(s[4], s[8])
    IN  ae = bf /\ bf = cg /\ cg = dh

\* Output a term r.
OutputTerm(s, r) ==
    <<s[5], s[6], s[7], s[8],
      s[1] - s[5] * r, s[2] - s[6] * r, s[3] - s[7] * r, s[4] - s[8] * r>>

\* IngestX that leaves h * p out of the last coefficient
IngestX_NoCarry(s, p) ==
    <<s[2], s[1] + s[2] * p, s[4], s[3] + s[4] * p,
      s[6], s[5] + s[6] * p, s[8], s[7]>>

\* Input from x: ingestion of p.
IngestX(s, p) ==
    <<s[2], s[1] + s[2] * p, s[4], s[3] + s[4] * p,
      s[6], s[5] + s[6] * p, s[8], s[7] + s[8] * p>>

\* Input from x: infinity, a, c, e, g = b, d, f, h.
FoldX(s) == <<s[2], s[2], s[4], s[4], s[6], s[6], s[8], s[8]>>

\* Input from y: ingestion of q.
IngestY(s, q) ==
    <<s[3], s[4], s[1] + s[3] * q, s[2] + s[4] * q,
      s[7], s[8], s[5] + s[7] * q, s[6] + s[8] * q>>

\* FoldY that replicates the numerators only
FoldY_Partial(s) == <<s[3], s[4], s[3], s[4], s[5], s[6], s[7], s[8]>>

\* Input from y: infinity, a, b, e, f = c, d, g, h.
FoldY(s) == <<s[3], s[4], s[3], s[4], s[7], s[8], s[7], s[8]>>

\* Which input to choose?  o is old, s the current coefficients.
ChooseX(xe, ye, o, s, ux) ==
    IF xe THEN FALSE
    ELSE IF ye THEN TRUE
    ELSE IF o = s THEN ~ux
    ELSE ux

\* ------------------------------------------------------------ Surd.digits
\* int(x / y) for a positive float numerator whose floor is num
IntQuot(num, y) == IF y > 0 THEN num \div y ELSE 0 - (num \div (0 - y))

SurdM(i, t) == t[2] * t[3] - t[1]

SurdD(i, t) == FloorDiv(i - SurdM(i, t) * SurdM(i, t), t[2])

SurdStep(i, t) ==
    <<SurdM(i, t), SurdD(i, t), IntQuot(Isqrt(i) + SurdM(i, t), SurdD(i, t))>>

\* l.index(t)
IndexOf(lst, t) == CHOOSE k \in 1..Len(lst) :
                      lst[k] = t /\ \A j \in 1..(k - 1) : lst[j] # t

InList(lst, t) == \E k \in 1..Len(lst) : lst[k] = t

\* Repeating that replays the whole of l
Repeating_FromStart(lst, t) == [k \in 1..Len(lst) |-> lst[k][3]]

\* zip(*l[l.index((m, d, a)):])[2]
Repeating(lst, t) ==
    LET start == IndexOf(lst, t)
    IN  [k \in 1..(Len(lst) - start + 1) |-> lst[start + k - 1][3]]

\* --------------------------------------------------------------- E.digits
\* EResume with "i += 1"
EResume_ByOne(p, im) ==
    IF p = "yield2" THEN <<2, 1>>
    ELSE IF p = "yieldi" THEN <<im[1] + 1, 0>>
    ELSE im

\* the locals (i, mod) once the statements that follow the last yield ran
EResume(p, im) ==
    IF p = "yield2" THEN <<2, 1>>
    ELSE IF p = "yieldi" THEN <<im[1] + 2, 0>>
    ELSE im

\* ----------------------------------------------- Pi.digits and simplifier
PiPair(k) == IF k = 0 THEN <<0, 4>> ELSE <<2 * k - 1, k * k>>

Ingest(s, pq) ==
    <<s[2] * pq[2], s[1] + s[2] * pq[1], s[4] * pq[2], s[3] + s[4] * pq[1]>>

\* "if ac and bd and ac == bd": None and 0 are both false
CanEmit(s) ==
    /\ s[3] # 0
    /\ s[4] # 0
    /\ FloorDiv(s[1], s[3]) # 0
    /\ FloorDiv(s[2], s[4]) # 0
    /\ FloorDiv(s[1], s[3]) = FloorDiv(s[2], s[4])

Reduce(s, r) == <<s[3], s[4], s[1] - s[3] * r, s[2] - s[4] * r>>

\* the pairs a generalized fraction other than Pi's may yield
PairVals == {<<0, 1>>, <<1, 1>>, <<2, 1>>, <<1, 2>>}

\* ---------------------------------------------------- Continued.normalize
HasInnerZero(ds) == \E j \in 2..Len(ds) : ds[j] = 0

\* digitlist.index(0, 1), as a 1-based position
ZeroIndex(ds) == CHOOSE j \in 2..Len(ds) :
                    ds[j] = 0 /\ \A k \in 2..(j - 1) : ds[k] # 0

RECURSIVE SumSeq(_)
SumSeq(ds) == IF Len(ds) = 0 THEN 0 ELSE ds[1] + SumSeq(Tail(ds))

Min(x, y) == IF x < y THEN x ELSE y

\* NormalizeList with "if" in place of "while": one zero is collapsed
NormalizeList_Once(ds) ==
    IF ~HasInnerZero(ds) THEN ds
    ELSE LET j == ZeroIndex(ds)
             digit == SumSeq(SubSeq(ds, j - 1, Min(j + 1, Len(ds))))
         IN  SubSeq(ds, 1, j - 2) \o <<digit>> \o SubSeq(ds, j + 2, Len(ds))

RECURSIVE NormalizeList(_)
NormalizeList(ds) ==
    IF ~HasInnerZero(ds) THEN ds
    ELSE LET j == ZeroIndex(ds)
         IN  IF j - 1 = Len(ds) + 1
             THEN NormalizeList(SubSeq(ds, 1, Len(ds) - 1))
             ELSE LET digit == SumSeq(SubSeq(ds, j - 1, Min(j + 1, Len(ds))))
                  IN  NormalizeList(SubSeq(ds, 1, j - 2) \o <<digit>>
                                    \o SubSeq(ds, j + 2, Len(ds)))

\* ------------------------------------------------------------------ Init
\* the rationals of tests.py, next to all small ones
TestRationals == {<<3, 5>>, <<7, 11>>, <<5, 8>>, <<42, 10>>,
                  <<100, 89>>, <<244, 217>>}

Operands == ((0..MaxNum) \X (0..MaxNum)) \cup TestRationals

DigitVals == -1..2

DigitLists == UNION {[1..k -> DigitVals] : k \in 0..MaxLen}

NoRationals == n1 = 0 /\ d1 = 0 /\ n2 = 0 /\ d2 = 0

NoCombiner ==
    /\ initial = <<>>
    /\ coef = <<>>
    /\ old = <<>>
    /\ use_x = TRUE
    /\ x_is_empty = FALSE
    /\ y_is_empty = FALSE
    /\ ix = 0
    /\ iy = 0

NoSurd == self_i = 0 /\ l = <<>> /\ mda = <<>> /\ cyc = 0

NoSimplifier == abcd = <<>> /\ feed = "none"

NoResult == ret = <<>> /\ out = <<>> /\ iter = 0

InitRational ==
    /\ kind = "Rational"
    /\ pc = "idle"
    /\ \E r1 \in Operands, r2 \in Operands :
          n1 = r1[1] /\ d1 = r1[2] /\ n2 = r2[1] /\ d2 = r2[2]
    /\ finite = TRUE
    /\ NoCombiner /\ NoSurd /\ NoSimplifier /\ NoResult
    /\ emod = <<>>
    /\ digitlist = <<>>

InitSurd ==
    /\ kind = "Surd"
    /\ pc = "start"
    /\ self_i \in 0..MaxRadicand
    /\ l = <<>> /\ mda = <<>> /\ cyc = 0
    /\ finite = FALSE
    /\ NoRationals /\ NoCombiner /\ NoSimplifier /\ NoResult
    /\ emod = <<>>
    /\ digitlist = <<>>

InitE ==
    /\ kind = "E"
    /\ pc = "start"
    /\ emod = <<>>
    /\ finite = FALSE
    /\ NoRationals /\ NoCombiner /\ NoSurd /\ NoSimplifier /\ NoResult
    /\ digitlist = <<>>

InitSimplified ==
    /\ kind = "simplified"
    /\ pc = "loop"
    /\ feed \in {"Pi", "other"}
    /\ abcd = <<0, 1, 1, 0>>
    /\ finite = FALSE
    /\ NoRationals /\ NoCombiner /\ NoSurd /\ NoResult
    /\ emod = <<>>
    /\ digitlist = <<>>

InitContinued ==
    /\ kind = "Continued"
    /\ pc = "idle"
    /\ digitlist \in DigitLists
    /\ finite \in BOOLEAN
    /\ NoRationals /\ NoCombiner /\ NoSurd /\ NoSimplifier /\ NoResult
    /\ emod = <<>>

Init == InitRational \/ InitSurd \/ InitE \/ InitSimplified \/ InitContinued

\* --------------------------------------------------- one-shot operations
xs == RationalDigits(n1, d1)
ys == RationalDigits(n2, d2)

\* self.__cmp__(other) on the two Rationals
Compare ==
    /\ kind = "Rational" /\ pc = "idle"
    /\ ret' = Cmp(xs, TRUE, ys, TRUE)
    /\ pc' = "cmp"
    /\ UNCHANGED <<kind, ratVars, finite, out, combVars, iter, surdVars,
                   emod, abcd, feed, digitlist>>

\* list(self.digits()) on the first Rational
Digits ==
    /\ kind = "Rational" /\ pc = "idle"
    /\ ret' = xs
    /\ pc' = "digits"
    /\ UNCHANGED <<kind, ratVars, finite, out, combVars, iter, surdVars,
                   emod, abcd, feed, digitlist>>

\* list(self.approximations) on the first Rational
Approximate ==
    /\ kind = "Rational" /\ pc = "idle"
    /\ ret' = Approximations(xs)
    /\ pc' = "approximations"
    /\ UNCHANGED <<kind, ratVars, finite, out, combVars, iter, surdVars,
                   emod, abcd, feed, digitlist>>

\* ---------------------------------------------------------------- combiner
\* self.combine(other, seed), and the combiner started up to its loop
Combine ==
    /\ kind = "Rational" /\ pc = "idle"
    /\ \E seed \in Seeds : initial' = seed /\ coef' = seed
    /\ finite' = (TRUE /\ TRUE)
    /\ use_x' = TRUE
    /\ x_is_empty' = FALSE
    /\ y_is_empty' = FALSE
    /\ pc' = "loop"
    /\ UNCHANGED <<kind, ratVars, ret, out, old, ix, iy, iter, surdVars,
                   emod, abcd, feed, digitlist>>

\* one iteration of "while any((e, f, g, h))"
CombinerLoop ==
    /\ kind = "Rational" /\ pc = "loop"
    /\ AnyEFGH(coef)
    /\ iter < MaxIter
    /\ iter' = iter + 1
    /\ old' = coef
    /\ IF CanOutput(coef)
       THEN LET r == Quot(coef[1], coef[5])[1]
            IN  /\ coef' = OutputTerm(coef, r)
                /\ out' = Append(out, r)
                /\ UNCHANGED <<pc, use_x, x_is_empty, y_is_empty, ix, iy>>
       ELSE IF finite /\ x_is_empty /\ y_is_empty
       THEN /\ pc' = "returned"
            /\ UNCHANGED <<coef, out, use_x, x_is_empty, y_is_empty, ix, iy>>
       ELSE /\ use_x' = ChooseX(x_is_empty, y_is_empty, old', coef, use_x)
            /\ IF use_x'
               THEN /\ ix' = ix + 1
                    /\ IF ix >= Len(xs)
                       THEN coef' = FoldX(coef) /\ x_is_empty' = TRUE
                       ELSE coef' = IngestX(coef, xs[ix + 1])
                            /\ UNCHANGED x_is_empty
                    /\ UNCHANGED <<iy, y_is_empty>>
               ELSE /\ iy' = iy + 1
                    /\ IF iy >= Len(ys)
                       THEN coef' = FoldY(coef) /\ y_is_empty' = TRUE
                       ELSE coef' = IngestY(coef, ys[iy + 1])
                            /\ UNCHANGED y_is_empty
                    /\ UNCHANGED <<ix, x_is_empty>>
            /\ UNCHANGED <<pc, out>>
    /\ UNCHANGED <<kind, ratVars, finite, ret, initial, surdVars, emod, abcd,
                   feed, digitlist>>

\* the loop condition fails: the generator is exhausted
CombinerStop ==
    /\ kind = "Rational" /\ pc = "loop"
    /\ ~AnyEFGH(coef)
    /\ pc' = "done"
    /\ UNCHANGED <<kind, ratVars, finite, ret, out, combVars, iter, surdVars,
                   emod, abcd, feed, digitlist>>

\* ------------------------------------------------------------ Surd.digits
\* one next() on Surd.digits: from a yield (or the start) to the next yield
SurdNext ==
    /\ kind = "Surd"
    /\ pc \in {"start", "search", "cycle"}
    /\ Len(out) < MaxDigits
    /\ iter' = iter + 1
    /\ IF pc = "start"
       THEN LET t == <<0, 1, Isqrt(self_i)>>
            IN  /\ mda' = t
                /\ l' = Append(l, t)
                /\ out' = Append(out, t[3])
                /\ pc' = "search"
                /\ UNCHANGED cyc
       ELSE IF pc = "search"
       THEN IF SurdD(self_i, mda) = 0
            THEN /\ pc' = "ZeroDivisionError"
                 /\ UNCHANGED <<mda, l, out, cyc>>
            ELSE LET t == SurdStep(self_i, mda)
                 IN  /\ mda' = t
                     /\ IF ~InList(l, t)
                        THEN /\ l' = Append(l, t)
                             /\ out' = Append(out, t[3])
                             /\ UNCHANGED <<pc, cyc>>
                        ELSE /\ out' = Append(out, Repeating(l, t)[1])
                             /\ cyc' = 1
                             /\ pc' = "cycle"
                             /\ UNCHANGED l
       ELSE LET repeating == Repeating(l, mda)
            IN  /\ out' = Append(out, repeating[(cyc % Len(repeating)) + 1])
                /\ cyc' = (cyc % Len(repeating)) + 1
                /\ UNCHANGED <<pc, mda, l>>
    /\ UNCHANGED <<kind, ratVars, finite, ret, combVars, self_i, emod, abcd,
                   feed, digitlist>>

\* --------------------------------------------------------------- E.digits
\* one next() on E.digits
ENext ==
    /\ kind = "E"
    /\ Len(out) < MaxDigits
    /\ iter' = iter + 1
    /\ IF pc = "start"
       THEN /\ out' = Append(out, 2)
            /\ pc' = "yield2"
            /\ UNCHANGED emod
       ELSE LET im == EResume(pc, emod)
                mod == im[2] + 1
            IN  /\ emod' = <<im[1], mod>>
                /\ IF mod % 3 # 0
                   THEN out' = Append(out, 1) /\ pc' = "yield1"
                   ELSE out' = Append(out, im[1]) /\ pc' = "yieldi"
    /\ UNCHANGED <<kind, ratVars, finite, ret, combVars, surdVars, abcd,
                   feed, digitlist>>

\* ------------------------------------------------------------- simplifier
\* one iteration of the simplifier's loop on a pair (p, q) that f yields
SimplifierLoop ==
    /\ kind = "simplified" /\ pc = "loop"
    /\ iter < MaxPairs
    /\ iter' = iter + 1
    /\ \E pq \in (IF feed = "Pi" THEN {PiPair(iter)} ELSE PairVals) :
          LET s == Ingest(abcd, pq)
          IN  IF CanEmit(s)
              THEN /\ abcd' = Reduce(s, FloorDiv(s[1], s[3]))
                   /\ out' = Append(out, FloorDiv(s[1], s[3]))
              ELSE /\ abcd' = s
                   /\ UNCHANGED out
    /\ UNCHANGED <<kind, pc, ratVars, finite, ret, combVars, surdVars, emod,
                   feed, digitlist>>

\* f raises ValueError: yield b, return (Pi.digits never does)
SimplifierEnd ==
    /\ kind = "simplified" /\ pc = "loop"
    /\ feed = "other"
    /\ out' = Append(out, abcd[2])
    /\ pc' = "returned"
    /\ UNCHANGED <<kind, ratVars, finite, ret, combVars, iter, surdVars,
                   emod, abcd, feed, digitlist>>

\* -------------------------------------------------------------- normalize
Normalize ==
    /\ kind = "Continued"
    /\ pc \in {"idle", "normalized"}
    /\ iter < MaxCalls
    /\ iter' = iter + 1
    /\ IF ~finite
       THEN pc' = "ValueError" /\ UNCHANGED digitlist
       ELSE pc' = "normalized" /\ digitlist' = NormalizeList(digitlist)
    /\ UNCHANGED <<kind, ratVars, finite, ret, out, combVars, surdVars, emod,
                   abcd, feed>>

Next == Compare \/ Digits \/ Approximate \/ Combine \/ CombinerLoop
        \/ CombinerStop \/ SurdNext \/ ENext \/ SimplifierLoop
        \/ SimplifierEnd \/ Normalize

Spec == Init /\ [][Next]_vars

\* the code's consumers (list(), ==) drive a finite combiner to its end
FairSpec == Spec /\ WF_vars(CombinerLoop) /\ WF_vars(CombinerStop)

\* ----------------------------------------------------------------- claims
Abs(x) == IF x < 0 THEN 0 - x ELSE x

\* p/q as the pair in lowest terms, q > 0
Reduced(p, q) == <<p \div gcd(Abs(p), q), q \div gcd(Abs(p), q)>>

\* x op y for the seed in use, as an ordinary fraction in lowest terms
Expected ==
    IF initial = add_seed THEN Reduced(n1 * d2 + n2 * d1, d1 * d2)
    ELSE IF initial = sub_seed THEN Reduced(n1 * d2 - n2 * d1, d1 * d2)
    ELSE IF initial = mul_seed THEN Reduced(n1 * n2, d1 * d2)
    ELSE Reduced(n1 * d2, d1 * n2)

\* both operands are rationals p/q with p >= 0, q > 0, and no division by 0
ValidOperands ==
    /\ kind = "Rational" /\ d1 > 0 /\ d2 > 0
    /\ (initial = div_seed => n2 > 0)

Canonical(ds) ==
    /\ \A k \in 2..Len(ds) : ds[k] > 0
    /\ (Len(ds) > 1 => ds[Len(ds)] # 1)

\* C1: whenever r1 = n1/d1 < r2 = n2/d2 (d1, d2 > 0), __cmp__ on the two
\* Rationals returns -1, also when one digit sequence is a proper prefix of
\* the other.
C1_CmpOrdersRationals ==
    (pc = "cmp" /\ d1 > 0 /\ d2 > 0 /\ n1 * d2 < n2 * d1) => ret = -1

\* C2: for rational operands and each of the four seeds (div only by a
\* non-zero y) the combiner terminates, and the last convergent of the
\* digits it emitted is x op y in lowest terms.
C2_Result ==
    (pc = "done" /\ ValidOperands) =>
        /\ Len(out) > 0
        /\ Approximations(out)[Len(out)] = Expected

C2_CombinerExact ==
    /\ []C2_Result
    /\ ((pc = "loop" /\ ValidOperands) ~> (pc = "done"))

C2_Witness ==
    /\ pc = "done" /\ initial = add_seed
    /\ <<n1, d1, n2, d2>> = <<3, 5, 7, 11>>
    /\ Approximations(out)[Len(out)] = <<68, 55>>

\* C3: for p >= 0, q > 0 the approximations of Rational(p, q) are as many
\* as its digits, and the last one is (p/gcd(p, q), q/gcd(p, q)).
C3_RoundTrip ==
    (pc = "approximations" /\ d1 > 0) =>
        /\ Len(ret) = Len(xs)
        /\ Len(ret) > 0
        /\ ret[Len(ret)] = <<n1 \div gcd(n1, d1), d1 \div gcd(n1, d1)>>

C3_Witness ==
    /\ pc = "approximations" /\ n1 = 42 /\ d1 = 10
    /\ ret = << <<4, 1>>, <<21, 5>> >>

\* C4: the digits of Rational(p, q), p >= 0, q > 0, and of every add, sub,
\* mul, div combination of two such rationals have no digit <= 0 after the
\* first and do not end in 1 when there is more than one digit.
C4_Canonical ==
    /\ (pc = "digits" /\ d1 > 0) => Canonical(ret)
    /\ (pc = "done" /\ ValidOperands) => Canonical(out)

C4_Witness ==
    /\ pc = "done" /\ initial = sub_seed /\ ValidOperands
    /\ Len(out) > 2 /\ out[1] < 0

\* C8: on an iteration that pulls while neither operand is exhausted, the
\* choice flips only if the coefficients are those of the previous
\* iteration's start (old = coef); with exactly one operand exhausted the
\* other one is pulled.
PullStep ==
    /\ pc = "loop" /\ pc' = "loop"
    /\ iter' = iter + 1
    /\ out' = out

C8_FlipOnlyOnStall ==
    [][PullStep =>
         /\ (iter >= 1 /\ ~x_is_empty /\ ~y_is_empty /\ use_x' # use_x)
                => old = coef
         /\ (x_is_empty /\ ~y_is_empty) => ~use_x'
         /\ (y_is_empty /\ ~x_is_empty) => use_x']_vars

\* C10: once both operands are exhausted, a = b = c = d and e = f = g = h
\* in every later state, every later iteration outputs a term, the return
\* branch is never taken, and the loop ends only with e = f = g = h = 0.
AllEqual(s) ==
    /\ s[1] = s[2] /\ s[2] = s[3] /\ s[3] = s[4]
    /\ s[5] = s[6] /\ s[6] = s[7] /\ s[7] = s[8]

C10_AfterBothFolds ==
    [][(x_is_empty' /\ y_is_empty') =>
         /\ AllEqual(coef')
         /\ pc' # "returned"
         /\ (x_is_empty /\ y_is_empty) =>
               \/ Len(out') = Len(out) + 1
               \/ pc' = "done" /\ ~AnyEFGH(coef)]_vars

C10_Witness ==
    /\ x_is_empty /\ y_is_empty /\ pc = "done"
    /\ Len(out) >= 3 /\ iter > ix + iy + 2

\* C5: for a non-square radicand i >= 2, Surd(i).digits does not stop, its
\* first digit is floor(sqrt(i)), and the digit at every index n is the a
\* of the n-th triple of the (m, d, a) recurrence, replayed digits included;
\* for i = 2 the digits are 1, 2, 2, 2, ...
RECURSIVE TripleAt(_, _)
TripleAt(i, n) ==
    IF n = 0 THEN <<0, 1, Isqrt(i)>>
    ELSE LET t == TripleAt(i, n - 1)
             m == t[2] * t[3] - t[1]
             d == (i - m * m) \div t[2]
         IN  <<m, d, (Isqrt(i) + m) \div d>>

IsSquare(i) == Isqrt(i) * Isqrt(i) = i

C5_SurdDigits ==
    (kind = "Surd" /\ self_i >= 2 /\ ~IsSquare(self_i)) =>
        /\ pc \in {"start", "search", "cycle"}
        /\ Len(out) = iter
        /\ \A n \in 1..Len(out) : out[n] = TripleAt(self_i, n - 1)[3]
        /\ (Len(out) > 0 =>
               out[1] * out[1] <= self_i
               /\ self_i < (out[1] + 1) * (out[1] + 1))
        /\ (self_i = 2 => \A n \in 2..Len(out) : out[n] = 2)

C5_Witness ==
    /\ kind = "Surd" /\ self_i = 7 /\ pc = "cycle"
    /\ out = <<2, 1, 1, 1, 4, 1, 1, 1, 4>>

\* C6: E.digits does not stop; digit 0 is 2 and digit n >= 1 is 2(n+1)/3
\* when n mod 3 = 2 and 1 otherwise.
C6_EDigits ==
    kind = "E" =>
        /\ Len(out) = iter
        /\ \A k \in 1..Len(out) :
              out[k] = IF k = 1 THEN 2
                       ELSE IF (k - 1) % 3 = 2 THEN (2 * k) \div 3
                       ELSE 1

C6_Witness == kind = "E" /\ out = <<2, 1, 2, 1, 1, 4, 1, 1, 6>>

\* C7: normalize on a finite instance leaves no 0 at any index >= 1, keeps
\* the sum of the digits (x, 0, y becomes x + y, a trailing 0 is dropped),
\* and a second normalize changes nothing.
C7_NormalizeIdempotent ==
    [][(kind = "Continued" /\ pc' = "normalized") =>
         /\ ~HasInnerZero(digitlist')
         /\ SumSeq(digitlist') = SumSeq(digitlist)
         /\ (pc = "normalized" => digitlist' = digitlist)]_vars

C7_Witness ==
    /\ kind = "Continued" /\ pc = "normalized" /\ iter = 2
    /\ digitlist = <<4>>

\* C9: whenever the simplifier is about to ingest a pair, (a, b, c, d) does
\* not satisfy the emission condition.
C9_NothingPendingAtIngest ==
    (kind = "simplified" /\ pc = "loop") => ~CanEmit(abcd)

====
